---- MODULE Spec2Model ----
(***************************************************************************)
(* Model of the data transport layer's ordered store (TransportDB over a   *)
(* levelup-style key-value backend) and of the L2 ingestion service's      *)
(* polling loop.                                                           *)
(*                                                                         *)
(* Keys are sequences of one-character strings, so that the fixed-width    *)
(* key encoding of _makeKey is modelled digit by digit and the backend's   *)
(* bytewise key order character by character.  A stored value is either    *)
(* the JSON text of a record, again a sequence of characters, or a number  *)
(* (a latest pointer or a cursor).                                         *)
(*                                                                         *)
(* SpecStore drives the put methods of the store, SpecScan its range       *)
(* queries, Spec the ingestion loop with failures, stop() and restarts,    *)
(* and SpecLive the loop on a chain of fixed height under weak fairness.   *)
(***************************************************************************)
EXTENDS Integers, Sequences, FiniteSets, TLC

----------------------------------------------------------------------------
(* Bounds of the model.                                                    *)

MaxIndex == 1
MaxLen == 2
MaxPuts == 2
MaxHeight == 4
MaxBatch == 2
ScanMax == 10

(* The records a caller may pass: the interfaces of src/src/db/db.ts,      *)
(* reduced to the field the store reads, the index.                        *)
Element == [index : 0..MaxIndex]

RECURSIVE SeqsUpTo(_, _)
SeqsUpTo(S, n) ==
  IF n = 0 THEN {<<>>}
  ELSE LET shorter == SeqsUpTo(S, n - 1)
       IN  shorter \cup {Append(s, e) : s \in {t \in shorter : Len(t) = n - 1}, e \in S}

EntryLists == SeqsUpTo(Element, MaxLen)

----------------------------------------------------------------------------
(* Key encoding.                                                           *)

PadWidth == 32

DigitChars == <<"0", "1", "2", "3", "4", "5", "6", "7", "8", "9">>

(* BigNumber.from(index).toString(): the decimal digits of a natural.      *)
RECURSIVE ToDecimal(_)
ToDecimal(n) ==
  IF n < 10 THEN <<DigitChars[n + 1]>>
  ELSE Append(ToDecimal(n \div 10), DigitChars[(n % 10) + 1])

(* String.prototype.padStart(width, fill): never truncates.                *)
RECURSIVE padStart(_, _, _)
padStart(s, width, fill) ==
  IF Len(s) >= width THEN s ELSE padStart(<<fill>> \o s, width, fill)

(* BigNumber.from(index).toString().padStart(32, '0'), tabulated once for  *)
(* the indices of the model.                                               *)
PaddedIndex ==
  [i \in 0..(ScanMax + 1) |-> padStart(ToDecimal(i), PadWidth, "0")]

(* A mutant of _makeKey: the index is not padded.                          *)
_makeKeyUnpadded(key, index) == key \o <<":">> \o ToDecimal(index)

(* `${key}:${...padStart(32, '0')}`                                        *)
_makeKey(key, index) == key \o <<":">> \o PaddedIndex[index]

(* JSON.stringify(element) of a record reduced to its index, and the       *)
(* JSON.parse that reads it back.                                          *)
JSONstringify(element) ==
  <<"{", "\"", "i", "n", "d", "e", "x", "\"", ":">> \o ToDecimal(element.index) \o <<"}">>

DigitValue(c) == CHOOSE v \in 0..9 : DigitChars[v + 1] = c

RECURSIVE ParseDecimal(_)
ParseDecimal(digits) ==
  IF digits = <<>> THEN 0
  ELSE ParseDecimal(SubSeq(digits, 1, Len(digits) - 1)) * 10
         + DigitValue(digits[Len(digits)])

JSONparse(text) == [index |-> ParseDecimal(SubSeq(text, 10, Len(text) - 1))]

Kinds == {"enqueue", "transaction", "batch:transaction", "stateroot", "batch:stateroot"}

KindChars(kind) ==
  CASE kind = "enqueue"           -> <<"e","n","q","u","e","u","e">>
    [] kind = "transaction"       -> <<"t","r","a","n","s","a","c","t","i","o","n">>
    [] kind = "batch:transaction" -> <<"b","a","t","c","h",":","t","r","a","n","s","a","c","t","i","o","n">>
    [] kind = "stateroot"         -> <<"s","t","a","t","e","r","o","o","t">>
    [] kind = "batch:stateroot"   -> <<"b","a","t","c","h",":","s","t","a","t","e","r","o","o","t">>

(* `<kind>:index` and `<kind>:latest`                                      *)
IndexPrefix(kind) == KindChars(kind) \o <<":","i","n","d","e","x">>
LatestKey(kind) == KindChars(kind) \o <<":","l","a","t","e","s","t">>

----------------------------------------------------------------------------
(* The backend: a function from keys to values.                            *)

dbPut(d, k, v) == [x \in (DOMAIN d) \cup {k} |-> IF x = k THEN v ELSE d[x]]

EmptyDB == [x \in {} |-> 0]

(* db.batch(list of puts): applied atomically, in list order.              *)
RECURSIVE dbBatch(_, _)
dbBatch(d, ops) ==
  IF ops = <<>> THEN d
  ELSE dbBatch(dbPut(d, Head(ops).key, Head(ops).value), Tail(ops))

(* A mutant of _putBatch: the last element of the batch is not written.    *)
_putBatchDropLast(d, key, elements) ==
  dbBatch(d, [i \in 1..(Len(elements) - 1) |->
                [key |-> _makeKey(key, elements[i].index),
                 value |-> JSONstringify(elements[i])]])

_putBatch(d, key, elements) ==
  dbBatch(d, [i \in 1..Len(elements) |->
                [key |-> _makeKey(key, elements[i].index),
                 value |-> JSONstringify(elements[i])]])

(* The backend's key order: bytewise, the characters of the keys by their  *)
(* character codes.                                                        *)
CharOrder ==
  <<"0", "1", "2", "3", "4", "5", "6", "7", "8", "9", ":",
    "A", "B", "C", "D", "E", "F", "G", "H", "I", "J", "K", "L", "M",
    "N", "O", "P", "Q", "R", "S", "T", "U", "V", "W", "X", "Y", "Z",
    "a", "b", "c", "d", "e", "f", "g", "h", "i", "j", "k", "l", "m",
    "n", "o", "p", "q", "r", "s", "t", "u", "v", "w", "x", "y", "z">>

CharCode ==
  [c \in {CharOrder[i] : i \in DOMAIN CharOrder} |->
     CHOOSE i \in DOMAIN CharOrder : CharOrder[i] = c]

KeyLess(a, b) ==
  LET n == IF Len(a) < Len(b) THEN Len(a) ELSE Len(b)
      differ == {i \in 1..n : a[i] # b[i]}
  IN  IF differ = {} THEN Len(a) < Len(b)
      ELSE LET i == CHOOSE j \in differ : \A k \in differ : j <= k
           IN  CharCode[a[i]] < CharCode[b[i]]

(* The keys of a set in the backend's order.                               *)
RECURSIVE KeysAscending(_)
KeysAscending(S) ==
  IF S = {} THEN <<>>
  ELSE LET first == CHOOSE k \in S : \A other \in S \ {k} : KeyLess(k, other)
       IN  <<first>> \o KeysAscending(S \ {first})

(* db.createValueStream({gte, lt}): the values of the keys in [gte, lt),   *)
(* in key order.                                                           *)
createValueStream(d, gte, lt) ==
  LET keys == KeysAscending({k \in DOMAIN d : ~KeyLess(k, gte) /\ KeyLess(k, lt)})
  IN  [i \in DOMAIN keys |-> d[keys[i]]]

(* _values(key, start, end): JSON.parse of each value of the stream from   *)
(* _makeKey(key, start) up to, not including, _makeKey(key, end).          *)
_values(d, key, start, end) ==
  LET stream == createValueStream(d, _makeKey(key, start), _makeKey(key, end))
  IN  [i \in DOMAIN stream |-> JSONparse(stream[i])]

(* `event:latest:${event}`                                                 *)
EventNames == {"TransactionEnqueued"}

EventKey(event) ==
  <<"e","v","e","n","t",":","l","a","t","e","s","t",":">> \o
  CASE event = "TransactionEnqueued" ->
    <<"T","r","a","n","s","a","c","t","i","o","n","E","n","q","u","e","u","e","d">>

(* What a rejected db.get leaves the caller with.                          *)
NotFound == [error |-> "NotFoundError"]

(* JSON.parse(await this.db.get(this._makeKey(key, index)))                *)
_get(d, key, index) ==
  IF _makeKey(key, index) \in DOMAIN d
    THEN JSONparse(d[_makeKey(key, index)])
    ELSE NotFound

(* get<Kind>ByIndex(index): this._get(`<kind>:index`, index)               *)
getByIndex(d, kind, index) == _get(d, IndexPrefix(kind), index)

(* getLatest<Kind>(): get<Kind>ByIndex(await this.db.get(`<kind>:latest`)) *)
getLatest(d, kind) ==
  IF LatestKey(kind) \in DOMAIN d
    THEN getByIndex(d, kind, d[LatestKey(kind)])
    ELSE NotFound

----------------------------------------------------------------------------
(* The synchronization cursor and the decoder, which the ingestion service *)
(* reaches through TransportDB and handleSequencerBlock.                   *)

Null == -1

CursorKey == <<"u","n","c","o","n","f","i","r","m","e","d",":","l","a","t","e","s","t">>

(* getHighestSyncedUnconfirmedBlock(): the stored cursor, null when        *)
(* nothing was ever written.                                               *)
getHighestSyncedUnconfirmedBlock(d) ==
  IF CursorKey \in DOMAIN d THEN d[CursorKey] ELSE Null

(* setHighestSyncedUnconfirmedBlock(block): one pointer put.               *)
setHighestSyncedUnconfirmedBlock(d, block) == dbPut(d, CursorKey, block)

(* parseBlock(block, chainId): the entry of a block; the sequencer's block *)
(* numbers are one ahead of the index space.                               *)
parseBlock(block) == [index |-> block.number - 1]

(* storeBlock(entry, db) persists the entry through the store's put of    *)
(* transaction entries, which is two backend operations: the batch of the  *)
(* record, then the put of the latest pointer.                             *)
storeBlockRecord(d, e) == _putBatch(d, IndexPrefix("transaction"), <<e>>)

storeBlockPointer(d, e) == dbPut(d, LatestKey("transaction"), e.index)

----------------------------------------------------------------------------
(* Pure parts of the ingestion loop.                                       *)

Max(a, b) == IF a > b THEN a ELSE b
Min(a, b) == IF a < b THEN a ELSE b

(* (await getHighestSyncedUnconfirmedBlock()) || 1                         *)
OrOne(x) == IF x = Null \/ x = 0 THEN 1 ELSE x

(* A mutant of CurrentL2Block: the reported height is taken as it is.      *)
CurrentL2BlockNoOffset(blockNumber) == Max(blockNumber, 0)

(* Math.max((await getBlockNumber()) - 1, 0)                               *)
CurrentL2Block(blockNumber) == Max(blockNumber - 1, 0)

(* Math.min(highestSynced + transactionsPerPollingInterval, current)       *)
TargetL2Block(highestSynced, perInterval, current) ==
  Min(highestSynced + perInterval, current)

(* The block numbers requested for a range: for (i = start; i <= end; i++) *)
(* in compatibility mode, eth_getBlockRange(start, end) otherwise.         *)
FetchNumbers(startBlockNumber, endBlockNumber) ==
  [i \in 1..(endBlockNumber - startBlockNumber + 1) |-> startBlockNumber + i - 1]

(* Insertion of a block into a list sorted by a.number - b.number, after   *)
(* the blocks that do not compare greater (Array.prototype.sort is stable).*)
RECURSIVE InsertSorted(_, _)
InsertSorted(sorted, block) ==
  IF sorted = <<>> THEN <<block>>
  ELSE IF Head(sorted).number - block.number > 0
         THEN <<block>> \o sorted
         ELSE <<Head(sorted)>> \o InsertSorted(Tail(sorted), block)

RECURSIVE SortFrom(_, _)
SortFrom(sorted, rest) ==
  IF rest = <<>> THEN sorted
  ELSE SortFrom(InsertSorted(sorted, Head(rest)), Tail(rest))

(* A mutant of SortBlocks: the responses are used in the order received.   *)
SortBlocksOmitted(responses) == responses

(* (await Promise.all(blockPromises)).sort((a, b) => a.number - b.number)  *)
SortBlocks(responses) == SortFrom(<<>>, responses)

(* A mutant of AllSettled: processing starts at the first response.        *)
AnySettled(waiting, received) == received # <<>>

(* await Promise.all(blockPromises): every request has been answered.      *)
AllSettled(waiting, received) == waiting = {}

----------------------------------------------------------------------------
VARIABLES
  db,         \* the backend's durable content
  stPc,       \* position of the put call in flight: "idle", "latest"
  stKind,     \* the kind of the put call in flight, "none" when idle
  stEntries,  \* the argument of the put call in flight, <<>> when idle
  stResult,   \* outcome of the last call: "none", "ok", "TypeError", "StorageError", "crashed"
  puts,       \* number of put calls made
  scan,       \* the last range query and what it returned, NoScan if none
  opts,       \* the service's options
  chainHeight,\* the height the endpoint reports, Null when it may report any
  atStart,    \* the backend's content when the iteration in progress began
  stopAt,     \* where stop() found the loop: "none", "cycle", "between"
  running,    \* this.running
  pc,         \* position of _start: "off" when the service is not started
  highestSyncedL2BlockNumber,
  currentL2Block,
  targetL2Block,
  requested,  \* block numbers requested from the endpoint in this iteration
  pending,    \* compatibility mode: requests not yet answered
  responses,  \* compatibility mode: the blocks received, in order of receipt
  blocks,     \* the blocks the processing loop iterates over
  handed,     \* numbers of the blocks handed to parseBlock in this iteration
  entry,      \* the entry parseBlock returned that is being stored, NoEntry if none
  sleeps,     \* sleeps started in this iteration
  err,        \* the error caught in this iteration, "none" if none
  prev        \* the window of the last iteration that failed or committed

storeVars == <<stPc, stKind, stEntries, stResult, puts, scan>>
locals == <<highestSyncedL2BlockNumber, currentL2Block, targetL2Block,
            requested, pending, responses, blocks, handed, entry>>
control == <<opts, chainHeight, atStart, stopAt, running>>
engineVars == <<control, pc, locals, sleeps, err, prev>>
vars == <<db, storeVars, engineVars>>

NoOptions ==
  [transactionsPerPollingInterval |-> 1,
   dangerouslyCatchAllErrors |-> FALSE,
   legacySequencerCompatibility |-> FALSE]

Options ==
  [transactionsPerPollingInterval : 1..MaxBatch,
   dangerouslyCatchAllErrors : BOOLEAN,
   legacySequencerCompatibility : BOOLEAN]

NoPrev ==
  [outcome |-> "none", hs |-> 0, current |-> 0, target |-> 0,
   requested |-> <<>>, cursor |-> Null]

NoScan == [kind |-> "none", start |-> 0, end |-> 0, result |-> <<>>]

StoreIdle ==
  /\ scan = NoScan
  /\ stPc = "idle"
  /\ stKind = "none"
  /\ stEntries = <<>>
  /\ stResult = "none"
  /\ puts = 0

(* No entry is being stored.                                               *)
NoEntry == [index |-> Null]

LocalsReset ==
  /\ highestSyncedL2BlockNumber = 0
  /\ currentL2Block = 0
  /\ targetL2Block = 0
  /\ requested = <<>>
  /\ pending = {}
  /\ responses = <<>>
  /\ blocks = <<>>
  /\ handed = <<>>
  /\ entry = NoEntry

(* The locals of a new iteration, and of a new process.                    *)
ResetLocals ==
  /\ highestSyncedL2BlockNumber' = 0
  /\ currentL2Block' = 0
  /\ targetL2Block' = 0
  /\ requested' = <<>>
  /\ pending' = {}
  /\ responses' = <<>>
  /\ blocks' = <<>>
  /\ handed' = <<>>
  /\ entry' = NoEntry

(* The store alone, driven by an external caller: the service is off.      *)
InitStore ==
  /\ db = EmptyDB
  /\ StoreIdle
  /\ opts = NoOptions
  /\ chainHeight = Null
  /\ atStart = EmptyDB
  /\ stopAt = "none"
  /\ running = FALSE
  /\ pc = "off"
  /\ LocalsReset
  /\ sleeps = 0
  /\ err = "none"
  /\ prev = NoPrev

(* The service, initialised and started on an empty store.                 *)
Init ==
  /\ db = EmptyDB
  /\ StoreIdle
  /\ opts \in Options
  /\ chainHeight = Null
  /\ atStart = EmptyDB
  /\ stopAt = "none"
  /\ running = TRUE
  /\ pc = "top"
  /\ LocalsReset
  /\ sleeps = 0
  /\ err = "none"
  /\ prev = NoPrev

----------------------------------------------------------------------------
(* The put methods of TransportDB.                                         *)

(* A caller invokes one of the five put methods, whose first backend      *)
(* operation is await this._putBatch(`<kind>:index`, entries).             *)
PutCall(kind, entries) ==
  /\ stPc = "idle"
  /\ puts < MaxPuts
  /\ db' = _putBatch(db, IndexPrefix(kind), entries)
  /\ stPc' = "latest"
  /\ stKind' = kind
  /\ stEntries' = entries
  /\ stResult' = "none"
  /\ puts' = puts + 1
  /\ UNCHANGED <<scan, engineVars>>

putEnqueueEntries == \E entries \in EntryLists : PutCall("enqueue", entries)
putTransactionEntries == \E entries \in EntryLists : PutCall("transaction", entries)
putTransactionBatchEntries == \E entries \in EntryLists : PutCall("batch:transaction", entries)
putStateRootEntries == \E entries \in EntryLists : PutCall("stateroot", entries)
putStateRootBatchEntries == \E entries \in EntryLists : PutCall("batch:stateroot", entries)

(* The backend rejects the batch of a put call: nothing of it is applied   *)
(* and the rejection propagates out of the put method.                     *)
PutBatchFails ==
  /\ stPc = "idle"
  /\ puts < MaxPuts
  /\ stResult' = "StorageError"
  /\ puts' = puts + 1
  /\ UNCHANGED <<db, stPc, stKind, stEntries, scan, engineVars>>

(* A mutant of PutLatestStep: the pointer is set from the first entry.     *)
PutLatestStepFirstEntry ==
  /\ stPc = "latest"
  /\ IF stEntries = <<>>
       THEN /\ stResult' = "TypeError"
            /\ UNCHANGED db
       ELSE /\ db' = dbPut(db, LatestKey(stKind), stEntries[1].index)
            /\ stResult' = "ok"
  /\ stPc' = "idle"
  /\ stKind' = "none"
  /\ stEntries' = <<>>
  /\ UNCHANGED <<puts, scan, engineVars>>

(* await this.db.put(`<kind>:latest`, entries[entries.length - 1].index)   *)
(* With no entries, entries[-1] is undefined and reading .index throws.    *)
PutLatestStep ==
  /\ stPc = "latest"
  /\ IF stEntries = <<>>
       THEN /\ stResult' = "TypeError"
            /\ UNCHANGED db
       ELSE /\ db' = dbPut(db, LatestKey(stKind), stEntries[Len(stEntries)].index)
            /\ stResult' = "ok"
  /\ stPc' = "idle"
  /\ stKind' = "none"
  /\ stEntries' = <<>>
  /\ UNCHANGED <<puts, scan, engineVars>>

(* The backend rejects the pointer write.                                  *)
PutLatestFails ==
  /\ stPc = "latest"
  /\ stEntries # <<>>
  /\ stPc' = "idle"
  /\ stKind' = "none"
  /\ stEntries' = <<>>
  /\ stResult' = "StorageError"
  /\ UNCHANGED <<db, puts, scan, engineVars>>

(* The process dies between the two backend operations of a put.           *)
StoreCrash ==
  /\ stPc # "idle"
  /\ stPc' = "idle"
  /\ stKind' = "none"
  /\ stEntries' = <<>>
  /\ stResult' = "crashed"
  /\ UNCHANGED <<db, puts, scan, engineVars>>

StoreNext ==
  \/ putEnqueueEntries
  \/ putTransactionEntries
  \/ putTransactionBatchEntries
  \/ putStateRootEntries
  \/ putStateRootBatchEntries
  \/ PutBatchFails
  \/ PutLatestStep
  \/ PutLatestFails
  \/ StoreCrash

SpecStore == InitStore /\ [][StoreNext]_vars

----------------------------------------------------------------------------
(* The range queries of TransportDB, on stores that put calls have filled. *)

ScanIndices == {1, 2, ScanMax}

RECURSIVE Ascending(_)
Ascending(S) ==
  IF S = {} THEN <<>>
  ELSE LET least == CHOOSE x \in S : \A y \in S : x <= y
       IN  <<least>> \o Ascending(S \ {least})

(* A completed put call of a kind: the batch, then the pointer.            *)
putEntries(d, kind, entries) ==
  dbPut(_putBatch(d, IndexPrefix(kind), entries),
        LatestKey(kind), entries[Len(entries)].index)

(* The store after one put call per kind with the records of the given     *)
(* indices (none for an empty set), an enqueue record, a batch record and  *)
(* a written synchronization cursor.                                       *)
FilledStore(transactions, stateroots) ==
  LET records(S) == [i \in DOMAIN Ascending(S) |-> [index |-> Ascending(S)[i]]]
      fill(d, kind, S) == IF S = {} THEN d ELSE putEntries(d, kind, records(S))
  IN  setHighestSyncedUnconfirmedBlock(
        fill(fill(fill(fill(EmptyDB, "enqueue", {2}),
                       "batch:transaction", {1}),
                  "transaction", transactions),
             "stateroot", stateroots),
        2)

InitScan ==
  /\ \E transactions \in SUBSET ScanIndices, stateroots \in SUBSET ScanIndices :
        db = FilledStore(transactions, stateroots)
  /\ StoreIdle
  /\ opts = NoOptions
  /\ chainHeight = Null
  /\ atStart = EmptyDB
  /\ stopAt = "none"
  /\ running = FALSE
  /\ pc = "off"
  /\ LocalsReset
  /\ sleeps = 0
  /\ err = "none"
  /\ prev = NoPrev

(* A caller makes one range query.                                         *)
RangeQuery(kind, start, end) ==
  /\ stPc = "idle"
  /\ scan = NoScan
  /\ scan' = [kind |-> kind, start |-> start, end |-> end,
              result |-> _values(db, IndexPrefix(kind), start, end)]
  /\ UNCHANGED <<db, stPc, stKind, stEntries, stResult, puts, engineVars>>

getTransactionsByIndexRange ==
  \E start, end \in 0..(ScanMax + 1) : RangeQuery("transaction", start, end)

getStateRootsByIndexRange ==
  \E start, end \in 0..(ScanMax + 1) : RangeQuery("stateroot", start, end)

(* this.db.put(`event:latest:${event}`, block)                             *)
putLastScannedEventBlock ==
  /\ stPc = "idle"
  /\ scan = NoScan
  /\ \E event \in EventNames, block \in ScanIndices :
        db' = dbPut(db, EventKey(event), block)
  /\ UNCHANGED <<storeVars, engineVars>>

ScanNext ==
  \/ getTransactionsByIndexRange
  \/ getStateRootsByIndexRange
  \/ putLastScannedEventBlock

SpecScan == InitScan /\ [][ScanNext]_vars

----------------------------------------------------------------------------
(* L2IngestionService._start and _syncSequencerBlocks, one action per      *)
(* awaited step.                                                           *)

InBatch ==
  {"sync", "awaitAll", "awaitRange", "process", "store", "storeLatest", "setCursor"}

(* What the iteration in progress leaves behind when it ends without       *)
(* writing the cursor.                                                     *)
FailedWindow ==
  [outcome |-> "failed",
   hs |-> highestSyncedL2BlockNumber,
   current |-> currentL2Block,
   target |-> targetL2Block,
   requested |-> requested,
   cursor |-> getHighestSyncedUnconfirmedBlock(db)]

(* A mutant of Catch: every error is absorbed, whatever the options.       *)
CatchAlwaysAbsorbs(e) ==
  /\ err' = e
  /\ pc' = "sleepError"
  /\ sleeps' = sleeps + 1
  /\ prev' = IF pc \in InBatch THEN FailedWindow ELSE prev

(* A mutant of Catch: the handler does not look at this.running.           *)
CatchIgnoresStop(e) ==
  /\ err' = e
  /\ IF opts.dangerouslyCatchAllErrors
       THEN /\ pc' = "sleepError"
            /\ sleeps' = sleeps + 1
       ELSE /\ pc' = "thrown"
            /\ UNCHANGED sleeps
  /\ prev' = IF pc \in InBatch THEN FailedWindow ELSE prev

(* catch (err): absorb and back off when stopped or catching all errors,   *)
(* rethrow otherwise.                                                      *)
Catch(e) ==
  /\ err' = e
  /\ IF ~running \/ opts.dangerouslyCatchAllErrors
       THEN /\ pc' = "sleepError"
            /\ sleeps' = sleeps + 1
       ELSE /\ pc' = "thrown"
            /\ UNCHANGED sleeps
  /\ prev' = IF pc \in InBatch THEN FailedWindow ELSE prev

(* while (this.running)                                                    *)
LoopTop ==
  /\ pc = "top"
  /\ IF running
       THEN /\ pc' = "getHighest"
            /\ ResetLocals
            /\ sleeps' = 0
            /\ err' = "none"
            /\ atStart' = db
       ELSE /\ pc' = "exited"
            /\ UNCHANGED <<locals, sleeps, err, atStart>>
  /\ UNCHANGED <<db, storeVars, opts, chainHeight, stopAt, running, prev>>

GetHighestSynced ==
  /\ pc = "getHighest"
  /\ highestSyncedL2BlockNumber' = OrOne(getHighestSyncedUnconfirmedBlock(db))
  /\ pc' = "getBlockNumber"
  /\ UNCHANGED <<db, storeVars, control, currentL2Block, targetL2Block,
                 requested, pending, responses, blocks, handed, entry, sleeps, err, prev>>

GetHighestSyncedFails ==
  /\ pc = "getHighest"
  /\ Catch("StorageError")
  /\ UNCHANGED <<db, storeVars, control, locals>>

(* The heights getBlockNumber() may answer with.                           *)
ReportedHeights == IF chainHeight = Null THEN 0..MaxHeight ELSE {chainHeight}

(* A mutant of GetBlockNumber: no early continue at the head.              *)
GetBlockNumberNoIdleCheck ==
  /\ pc = "getBlockNumber"
  /\ \E blockNumber \in ReportedHeights :
        /\ currentL2Block' = CurrentL2Block(blockNumber)
        /\ targetL2Block' =
             TargetL2Block(highestSyncedL2BlockNumber,
                           opts.transactionsPerPollingInterval,
                           CurrentL2Block(blockNumber))
  /\ pc' = "sync"
  /\ UNCHANGED <<db, storeVars, control, highestSyncedL2BlockNumber,
                 requested, pending, responses, blocks, handed, entry, sleeps, err,
                 prev>>

(* The endpoint reports a height; the window is computed; at the head the  *)
(* iteration sleeps and continues.                                         *)
GetBlockNumber ==
  /\ pc = "getBlockNumber"
  /\ \E blockNumber \in ReportedHeights :
        /\ currentL2Block' = CurrentL2Block(blockNumber)
        /\ targetL2Block' =
             TargetL2Block(highestSyncedL2BlockNumber,
                           opts.transactionsPerPollingInterval,
                           CurrentL2Block(blockNumber))
  /\ IF highestSyncedL2BlockNumber = targetL2Block'
       THEN /\ pc' = "sleepIdle"
            /\ sleeps' = sleeps + 1
       ELSE /\ pc' = "sync"
            /\ UNCHANGED sleeps
  /\ UNCHANGED <<db, storeVars, control, highestSyncedL2BlockNumber,
                 requested, pending, responses, blocks, handed, entry, err, prev>>

GetBlockNumberFails ==
  /\ pc = "getBlockNumber"
  /\ Catch("RpcError")
  /\ UNCHANGED <<db, storeVars, control, locals>>

(* _syncSequencerBlocks(highestSynced, target) up to the requests: returns *)
(* at once when start > end, else asks the endpoint for the blocks.        *)
SyncSequencerBlocks ==
  /\ pc = "sync"
  /\ IF highestSyncedL2BlockNumber > targetL2Block
       THEN /\ pc' = "setCursor"
            /\ UNCHANGED <<requested, pending>>
       ELSE /\ requested' = FetchNumbers(highestSyncedL2BlockNumber, targetL2Block)
            /\ IF opts.legacySequencerCompatibility
                 THEN /\ pending' = {requested'[i] : i \in DOMAIN requested'}
                      /\ pc' = "awaitAll"
                 ELSE /\ pc' = "awaitRange"
                      /\ UNCHANGED pending
  /\ UNCHANGED <<db, storeVars, control, highestSyncedL2BlockNumber,
                 currentL2Block, targetL2Block, responses, blocks, handed, entry,
                 sleeps, err, prev>>

(* Compatibility mode: one eth_getBlockByNumber request is answered, in    *)
(* any order, with the block of the number asked for.                      *)
BlockResponse ==
  /\ pc = "awaitAll"
  /\ \E n \in pending :
        /\ responses' = Append(responses, [number |-> n])
        /\ pending' = pending \ {n}
  /\ UNCHANGED <<db, storeVars, control, pc, highestSyncedL2BlockNumber,
                 currentL2Block, targetL2Block, requested, blocks, handed, entry,
                 sleeps, err, prev>>

(* Compatibility mode: Promise.all resolves and the blocks are sorted.     *)
JoinAndSort ==
  /\ pc = "awaitAll"
  /\ AllSettled(pending, responses)
  /\ blocks' = SortBlocks(responses)
  /\ pc' = "process"
  /\ UNCHANGED <<db, storeVars, control, highestSyncedL2BlockNumber,
                 currentL2Block, targetL2Block, requested, pending, responses,
                 handed, entry, sleeps, err, prev>>

(* Bulk mode: eth_getBlockRange answers with the range in ascending order. *)
RangeResponse ==
  /\ pc = "awaitRange"
  /\ blocks' = [i \in DOMAIN requested |-> [number |-> requested[i]]]
  /\ pc' = "process"
  /\ UNCHANGED <<db, storeVars, control, highestSyncedL2BlockNumber,
                 currentL2Block, targetL2Block, requested, pending, responses,
                 handed, entry, sleeps, err, prev>>

FetchFails ==
  /\ pc \in {"awaitAll", "awaitRange"}
  /\ Catch("RpcError")
  /\ UNCHANGED <<db, storeVars, control, locals>>

(* for (const block of blocks): await parseBlock(block, l2ChainId) returns *)
(* the entry of the next block.                                            *)
ParseBlock ==
  /\ pc = "process"
  /\ Len(handed) < Len(blocks)
  /\ LET block == blocks[Len(handed) + 1]
     IN  /\ handed' = Append(handed, block.number)
         /\ entry' = parseBlock(block)
  /\ pc' = "store"
  /\ UNCHANGED <<db, storeVars, control, highestSyncedL2BlockNumber,
                 currentL2Block, targetL2Block, requested, pending, responses,
                 blocks, sleeps, err, prev>>

ParseBlockFails ==
  /\ pc = "process"
  /\ Len(handed) < Len(blocks)
  /\ handed' = Append(handed, blocks[Len(handed) + 1].number)
  /\ Catch("DecodeError")
  /\ UNCHANGED <<db, storeVars, control, highestSyncedL2BlockNumber,
                 currentL2Block, targetL2Block, requested, pending, responses,
                 blocks, entry>>

(* await storeBlock(entry, db), first backend operation: the record.       *)
StoreBlockRecord ==
  /\ pc = "store"
  /\ db' = storeBlockRecord(db, entry)
  /\ pc' = "storeLatest"
  /\ UNCHANGED <<storeVars, control, locals, sleeps, err, prev>>

(* The backend rejects the batch: nothing of it is applied.                *)
StoreBlockFails ==
  /\ pc = "store"
  /\ Catch("StorageError")
  /\ UNCHANGED <<db, storeVars, control, locals>>

(* await storeBlock(entry, db), second backend operation: the pointer;     *)
(* the loop goes on to the next block, or ends.                            *)
StoreBlockPointer ==
  /\ pc = "storeLatest"
  /\ db' = storeBlockPointer(db, entry)
  /\ pc' = IF Len(handed) = Len(blocks) THEN "setCursor" ELSE "process"
  /\ UNCHANGED <<storeVars, control, locals, sleeps, err, prev>>

(* The backend rejects the pointer put: the record stays written.          *)
StorePointerFails ==
  /\ pc = "storeLatest"
  /\ Catch("StorageError")
  /\ UNCHANGED <<db, storeVars, control, locals>>

(* A mutant of SetCursor: the cursor is also written inside the loop over  *)
(* the blocks.                                                             *)
SetCursorInLoop ==
  /\ pc \in {"process", "setCursor"}
  /\ db' = setHighestSyncedUnconfirmedBlock(db, targetL2Block)
  /\ pc' = IF pc = "process" THEN "process"
           ELSE IF currentL2Block - highestSyncedL2BlockNumber
                     < opts.transactionsPerPollingInterval
                  THEN "sleepPace" ELSE "top"
  /\ sleeps' = IF pc' = "sleepPace" THEN sleeps + 1 ELSE sleeps
  /\ prev' = IF pc = "process" THEN prev
             ELSE [outcome |-> "committed",
                   hs |-> highestSyncedL2BlockNumber,
                   current |-> currentL2Block,
                   target |-> targetL2Block,
                   requested |-> requested,
                   cursor |-> targetL2Block]
  /\ UNCHANGED <<storeVars, control, locals, err>>

(* A mutant of SetCursor: the cursor is set to the head, not the target.    *)
SetCursorToHead ==
  /\ pc = "setCursor"
  /\ db' = setHighestSyncedUnconfirmedBlock(db, currentL2Block)
  /\ IF currentL2Block - highestSyncedL2BlockNumber
          < opts.transactionsPerPollingInterval
       THEN /\ pc' = "sleepPace"
            /\ sleeps' = sleeps + 1
       ELSE /\ pc' = "top"
            /\ UNCHANGED sleeps
  /\ prev' = [outcome |-> "committed",
              hs |-> highestSyncedL2BlockNumber,
              current |-> currentL2Block,
              target |-> targetL2Block,
              requested |-> requested,
              cursor |-> currentL2Block]
  /\ UNCHANGED <<storeVars, control, locals, err>>

(* A mutant of SetCursor: the pacing test is <= instead of <.               *)
SetCursorPaceInclusive ==
  /\ pc = "setCursor"
  /\ db' = setHighestSyncedUnconfirmedBlock(db, targetL2Block)
  /\ IF currentL2Block - highestSyncedL2BlockNumber
          <= opts.transactionsPerPollingInterval
       THEN /\ pc' = "sleepPace"
            /\ sleeps' = sleeps + 1
       ELSE /\ pc' = "top"
            /\ UNCHANGED sleeps
  /\ prev' = [outcome |-> "committed",
              hs |-> highestSyncedL2BlockNumber,
              current |-> currentL2Block,
              target |-> targetL2Block,
              requested |-> requested,
              cursor |-> targetL2Block]
  /\ UNCHANGED <<storeVars, control, locals, err>>

(* await setHighestSyncedUnconfirmedBlock(target), then the pacing sleep   *)
(* when the window reached the head.                                       *)
SetCursor ==
  /\ pc = "setCursor"
  /\ db' = setHighestSyncedUnconfirmedBlock(db, targetL2Block)
  /\ IF currentL2Block - highestSyncedL2BlockNumber
          < opts.transactionsPerPollingInterval
       THEN /\ pc' = "sleepPace"
            /\ sleeps' = sleeps + 1
       ELSE /\ pc' = "top"
            /\ UNCHANGED sleeps
  /\ prev' = [outcome |-> "committed",
              hs |-> highestSyncedL2BlockNumber,
              current |-> currentL2Block,
              target |-> targetL2Block,
              requested |-> requested,
              cursor |-> targetL2Block]
  /\ UNCHANGED <<storeVars, control, locals, err>>

SetCursorFails ==
  /\ pc = "setCursor"
  /\ Catch("StorageError")
  /\ UNCHANGED <<db, storeVars, control, locals>>

(* await sleep(pollingInterval) returns.                                   *)
SleepDone ==
  /\ pc \in {"sleepIdle", "sleepPace", "sleepError"}
  /\ pc' = "top"
  /\ UNCHANGED <<db, storeVars, control, locals, sleeps, err, prev>>

(* A mutant of Stop: the loop is abandoned where it stands.                 *)
StopAborts ==
  /\ running
  /\ pc \notin {"off", "exited", "thrown"}
  /\ running' = FALSE
  /\ stopAt' = IF pc \in InBatch THEN "cycle" ELSE "between"
  /\ pc' = "exited"
  /\ UNCHANGED <<db, storeVars, opts, chainHeight, atStart, locals, sleeps,
                 err, prev>>

(* stop(): this.running = false, observed at the loop top and in catch.    *)
Stop ==
  /\ running
  /\ pc \notin {"off", "exited", "thrown"}
  /\ running' = FALSE
  /\ stopAt' = IF pc \in InBatch THEN "cycle" ELSE "between"
  /\ UNCHANGED <<db, storeVars, opts, chainHeight, atStart, pc, locals, sleeps,
                 err, prev>>

(* The process dies at any point and is started again on the same store.   *)
CrashRestart ==
  /\ pc # "off"
  /\ pc' = "top"
  /\ running' = TRUE
  /\ ResetLocals
  /\ sleeps' = 0
  /\ err' = "none"
  /\ prev' = IF pc \in InBatch THEN FailedWindow ELSE prev
  /\ stopAt' = "none"
  /\ atStart' = EmptyDB
  /\ UNCHANGED <<db, storeVars, opts, chainHeight>>

Next ==
  \/ LoopTop
  \/ GetHighestSynced
  \/ GetHighestSyncedFails
  \/ GetBlockNumber
  \/ GetBlockNumberFails
  \/ SyncSequencerBlocks
  \/ BlockResponse
  \/ JoinAndSort
  \/ RangeResponse
  \/ FetchFails
  \/ ParseBlock
  \/ ParseBlockFails
  \/ StoreBlockRecord
  \/ StoreBlockFails
  \/ StoreBlockPointer
  \/ StorePointerFails
  \/ SetCursor
  \/ SetCursorFails
  \/ SleepDone
  \/ Stop
  \/ CrashRestart

Spec == Init /\ [][Next]_vars

(* The service on an endpoint whose height stays at one value of at least  *)
(* 2, with no failing step, no stop() and no restart: the loop is a single *)
(* async function whose awaited steps all return, so it keeps taking steps.*)
InitLive ==
  /\ db = EmptyDB
  /\ StoreIdle
  /\ opts \in Options
  /\ chainHeight \in 2..MaxHeight
  /\ atStart = EmptyDB
  /\ stopAt = "none"
  /\ running = TRUE
  /\ pc = "top"
  /\ LocalsReset
  /\ sleeps = 0
  /\ err = "none"
  /\ prev = NoPrev

NextLive ==
  \/ LoopTop
  \/ GetHighestSynced
  \/ GetBlockNumber
  \/ SyncSequencerBlocks
  \/ BlockResponse
  \/ JoinAndSort
  \/ RangeResponse
  \/ ParseBlock
  \/ StoreBlockRecord
  \/ StoreBlockPointer
  \/ SetCursor
  \/ SleepDone

SpecLive == InitLive /\ [][NextLive]_vars /\ WF_vars(NextLive)

----------------------------------------------------------------------------
(* Observations of the store used by the properties.                       *)

HasLatest(kind) == LatestKey(kind) \in DOMAIN db

StoredIndices(kind) ==
  {i \in DOMAIN PaddedIndex : IndexPrefix(kind) \o <<":">> \o PaddedIndex[i] \in DOMAIN db}

SetMax(S) == CHOOSE m \in S : \A x \in S : x <= m

StrictlyIncreasing(es) ==
  /\ es # <<>>
  /\ \A i \in 1..(Len(es) - 1) : es[i].index < es[i + 1].index

Cursor(d) == IF CursorKey \in DOMAIN d THEN d[CursorKey] ELSE Null

BlockStored(d, number) ==
  IndexPrefix("transaction") \o <<":">> \o PaddedIndex[number - 1] \in DOMAIN d

----------------------------------------------------------------------------
(* Properties of the store, checked under SpecStore.                       *)

(* C1: in every state of the backend, between the operations of a put and  *)
(* after a crash or a backend failure included, a kind's latest pointer    *)
(* names an index whose record is stored, and while the pointer write of a *)
(* put is still to come every record of its batch is already stored.       *)
C1_PointerNeverAheadOfRecords ==
  /\ \A kind \in Kinds :
        HasLatest(kind) => db[LatestKey(kind)] \in StoredIndices(kind)
  /\ stPc = "latest" =>
        \A i \in DOMAIN stEntries : stEntries[i].index \in StoredIndices(stKind)

(* C1 witness: a put crashed after its batch and before its pointer write: *)
(* records of a kind are stored and the kind has no pointer.               *)
C1_Witness ==
  /\ stResult = "crashed"
  /\ \E kind \in Kinds : Cardinality(StoredIndices(kind)) = 2 /\ ~HasLatest(kind)

(* C2: once records are stored for a kind, the kind's latest pointer       *)
(* exists and equals the maximum stored index, in every state.             *)
C2_LatestEqualsMaxStored ==
  \A kind \in Kinds :
    StoredIndices(kind) # {} =>
      /\ HasLatest(kind)
      /\ db[LatestKey(kind)] = SetMax(StoredIndices(kind))

(* C3: from one state to the next, the latest pointer of a kind never      *)
(* decreases.                                                              *)
C3_LatestNeverDecreases ==
  [][\A kind \in Kinds :
       HasLatest(kind) =>
         /\ LatestKey(kind) \in DOMAIN db'
         /\ db'[LatestKey(kind)] >= db[LatestKey(kind)]]_vars

(* C4: a put whose argument is empty or not strictly increasing is         *)
(* rejected: it does not return normally.                                  *)
C4_InvalidBatchRejected ==
  [][(stPc = "latest" /\ stPc' = "idle" /\ ~StrictlyIncreasing(stEntries))
       => stResult' # "ok"]_vars

----------------------------------------------------------------------------
(* Properties of the ingestion loop, checked under Spec.                   *)

WindowKnown ==
  pc \in {"sleepIdle", "sync", "awaitAll", "awaitRange", "process", "store",
          "storeLatest", "setCursor", "sleepPace"}

Fetching == pc \in {"awaitAll", "awaitRange", "process", "store", "storeLatest"}

RangeInclusive(lo, hi) == [i \in 1..(hi - lo + 1) |-> lo + i - 1]

C5_CursorWrittenLast ==
  (Cursor(db') # Cursor(db)) =>
    /\ pc = "setCursor"
    /\ Cursor(db') = targetL2Block
    /\ Len(blocks) = Len(requested)
    /\ handed = [i \in DOMAIN blocks |-> blocks[i].number]
    /\ \A i \in DOMAIN requested : BlockStored(db, requested[i])

C5_ReplayAfterFailure ==
  prev.outcome = "failed" =>
    /\ Cursor(db) = prev.cursor
    /\ highestSyncedL2BlockNumber # 0 => highestSyncedL2BlockNumber = prev.hs
    /\ (WindowKnown /\ currentL2Block = prev.current) =>
          targetL2Block = prev.target
    /\ (Fetching /\ currentL2Block = prev.current) =>
          /\ requested = RangeInclusive(prev.hs, prev.target)
          /\ prev.requested # <<>> => requested = prev.requested

(* C5 (amended): the cursor changes only in the cursor write that follows  *)
(* the parsing and storing of every fetched block; after an iteration that *)
(* failed or crashed before that write the cursor has its previous value,  *)
(* the next iteration computes the same highestSynced, and it requests the *)
(* same block range whenever the endpoint reports the same height.         *)
C5_CursorAdvancesAfterBatch ==
  []C5_ReplayAfterFailure /\ [][C5_CursorWrittenLast]_vars

(* C5 witness: a batch of two blocks was committed in part, the iteration  *)
(* failed, and the next iteration has fetched the same range again.        *)
C5_Witness ==
  /\ prev.outcome = "failed"
  /\ pc = "process"
  /\ handed = <<>>
  /\ Len(requested) >= 2
  /\ requested = prev.requested
  /\ BlockStored(db, requested[1])
  /\ ~BlockStored(db, requested[2])

(* C5 as stated: after an iteration that fetched a range and failed before *)
(* the cursor write, the next iteration computes the same highestSynced    *)
(* and requests the same block range.                                      *)
C5_SameRangeRefetched ==
  (prev.outcome = "failed" /\ prev.requested # <<>>) =>
    /\ highestSyncedL2BlockNumber # 0 => highestSyncedL2BlockNumber = prev.hs
    /\ pc # "sleepIdle"
    /\ Fetching => requested = prev.requested

(* C6: in every iteration that fetches, the block numbers requested are    *)
(* exactly those b with highestSynced < b <= target. The loop requests the *)
(* closed window instead, the block numbered highestSynced included.       *)
C6_RequestedWindowExclusive ==
  (Fetching \/ requested # <<>>) =>
    {requested[i] : i \in DOMAIN requested}
      = {b \in 0..(MaxHeight + MaxBatch) :
           highestSyncedL2BlockNumber < b /\ b <= targetL2Block}

(* C7: an iteration that computed highestSynced > target issues no fetch   *)
(* and leaves the store unchanged.                                         *)
C7_NoOpWhenStartAboveTarget ==
  [][(pc \in {"sync", "setCursor"} /\ highestSyncedL2BlockNumber > targetL2Block)
       => (db' = db /\ requested' = <<>>)]_vars

(* C8: the stored synchronization cursor never decreases.                  *)
C8_CursorMonotonic ==
  [][Cursor(db) # Null => Cursor(db') >= Cursor(db)]_vars

(* C9: under either fetch strategy, the blocks of an iteration are handed  *)
(* to parseBlock and storeBlock in strictly ascending block-number order.  *)
C9_ProcessedAscending ==
  \A i \in 1..(Len(handed) - 1) : handed[i] < handed[i + 1]

(* C9 witness: compatibility mode, the responses came back out of order    *)
(* and two blocks or more have been handed on.                             *)
C9_Witness ==
  /\ opts.legacySequencerCompatibility
  /\ Len(handed) >= 2
  /\ \E i \in 1..(Len(responses) - 1) : responses[i].number > responses[i + 1].number

(* C10: in compatibility mode no block is handed to the decoder before     *)
(* every request of the range is answered, and the k-th block handed on is *)
(* the one with the k-th smallest number among the responses.              *)
C10_JoinThenSorted ==
  (opts.legacySequencerCompatibility /\ (pc = "process" \/ handed # <<>>)) =>
    /\ pending = {}
    /\ Len(responses) = Len(requested)
    /\ \A k \in DOMAIN handed :
          /\ \E j \in DOMAIN responses : responses[j].number = handed[k]
          /\ Cardinality({j \in DOMAIN responses : responses[j].number < handed[k]}) = k - 1

(* C10 witness: the responses arrived in descending order and the whole    *)
(* batch was handed on in ascending order.                                 *)
C10_Witness ==
  /\ opts.legacySequencerCompatibility
  /\ Len(responses) >= 2
  /\ \A i \in 1..(Len(responses) - 1) : responses[i].number > responses[i + 1].number
  /\ Len(handed) = Len(responses)
  /\ handed[1] < handed[2]

----------------------------------------------------------------------------
(* A step of the iteration fails: the catch block has just been entered.   *)
FailureRaised == err = "none" /\ err' # "none"

(* C11: while the service is running, a failure raised by a step of an     *)
(* iteration leaves the loop thrown when dangerouslyCatchAllErrors is off  *)
(* (only a restart of the process leaves that position); when it is on,    *)
(* the failure is absorbed, one sleep is the only sleep of the iteration,  *)
(* the sleep returns to the loop top, and a running loop goes on to a new  *)
(* iteration there.                                                        *)
C11_ErrorPolicyBranches ==
  [][ /\ (FailureRaised /\ running /\ ~opts.dangerouslyCatchAllErrors)
           => (pc' = "thrown" /\ sleeps' = sleeps /\ db' = db)
      /\ (FailureRaised /\ running /\ opts.dangerouslyCatchAllErrors)
           => (pc' = "sleepError" /\ sleeps' = 1 /\ db' = db)
      /\ pc = "thrown" => pc' \in {"thrown", "top"}
      /\ (pc = "sleepError" /\ pc' # pc) => pc' = "top"
      /\ (pc = "top" /\ running /\ err # "none" /\ pc' # pc)
           => (pc' = "getHighest" /\ err' = "none" /\ sleeps' = 0)
    ]_vars

(* A decode failure on the second block of a batch was absorbed.           *)
C11_Witness ==
  /\ pc = "sleepError"
  /\ running
  /\ opts.dangerouslyCatchAllErrors
  /\ err = "DecodeError"
  /\ sleeps = 1
  /\ Len(handed) = 2

(* The cycle of the iteration ran to completion: every requested block was *)
(* handed to the decoder and is stored, and the cursor is the target.      *)
CycleComplete ==
  /\ Len(handed) = Len(requested)
  /\ \A i \in DOMAIN requested : BlockStored(db, requested[i])
  /\ Cursor(db) = targetL2Block

(* C12 as stated: a loop that was stopped while a fetch/decode/commit      *)
(* cycle was in flight has exited only with that cycle complete.           *)
C12_ExitOnlyAfterCompleteCycle ==
  (pc = "exited" /\ stopAt = "cycle") => CycleComplete

(* C12, amended: stop() changes nothing but this.running, the loop exits   *)
(* only at the loop top, and a loop stopped while a cycle was in flight    *)
(* has exited with that cycle complete if no step of it failed, and with   *)
(* the failure absorbed and the cursor not advanced if one did.            *)
C12_ExitAfterCycleOrAbsorbedFailure ==
  /\ []((pc = "exited" /\ stopAt = "cycle" /\ err = "none") => CycleComplete)
  /\ []((pc = "exited" /\ stopAt = "cycle" /\ err # "none")
          => (prev.outcome = "failed" /\ Cursor(db) = prev.cursor /\ sleeps = 1))
  /\ [][ /\ (running /\ ~running') => (pc' = pc /\ db' = db /\ locals' = locals)
         /\ (pc # "exited" /\ pc' = "exited") => (pc = "top" /\ ~running)
       ]_vars

(* A stop found a cycle in flight and the loop exited after both of its    *)
(* blocks were stored and the cursor was written.                          *)
C12_Witness ==
  /\ pc = "exited"
  /\ stopAt = "cycle"
  /\ err = "none"
  /\ Len(handed) = 2
  /\ CycleComplete

(* C13: an iteration whose highestSynced equals its target is in its idle  *)
(* sleep: it has requested no block and handed none to the decoder, the    *)
(* sleep is its only one, no step of it writes the store, and the sleep    *)
(* returns to the loop top.                                                *)
C13_IdleIterationOnlySleeps ==
  /\ []((WindowKnown /\ highestSyncedL2BlockNumber = targetL2Block)
          => /\ pc = "sleepIdle"
             /\ requested = <<>>
             /\ handed = <<>>
             /\ sleeps = 1
             /\ db = atStart)
  /\ [][ /\ pc' = "sleepIdle" => db' = db
         /\ (pc = "sleepIdle" /\ pc' # pc) => (pc' = "top" /\ db' = db)
       ]_vars

(* The loop idles at the head after it committed up to block 2.            *)
C13_Witness ==
  /\ pc = "sleepIdle"
  /\ Cursor(db) = 2
  /\ highestSyncedL2BlockNumber = 2
  /\ targetL2Block = 2
  /\ sleeps = 1

(* The cursor write of the iteration in progress has just returned.        *)
Committed ==
  /\ pc = "setCursor"
  /\ pc' \in {"sleepPace", "top"}
  /\ highestSyncedL2BlockNumber' = highestSyncedL2BlockNumber

(* C14: when the cursor write of an iteration returns, the iteration       *)
(* sleeps one pollingInterval exactly if currentL2Block - highestSynced,   *)
(* as computed at its start, is below transactionsPerPollingInterval, and  *)
(* that sleep returns to the loop top; otherwise it is at the loop top at  *)
(* once, with no sleep started.                                            *)
C14_PaceSleepIffWindowReachedHead ==
  [][ /\ Committed
          => /\ (pc' = "sleepPace")
                   <=> (currentL2Block - highestSyncedL2BlockNumber
                          < opts.transactionsPerPollingInterval)
             /\ sleeps' = IF pc' = "sleepPace" THEN 1 ELSE 0
             /\ locals' = locals
      /\ (pc = "sleepPace" /\ pc' # pc) => (pc' = "top" /\ db' = db)
      /\ (pc = "top" /\ running /\ err = "none" /\ pc' # pc) => pc' = "getHighest"
    ]_vars

(* A batch of two blocks was committed below the head and the loop is back *)
(* at its top without having slept.                                        *)
C14_Witness ==
  /\ pc = "top"
  /\ prev.outcome = "committed"
  /\ Cursor(db) = targetL2Block
  /\ Len(handed) = 2
  /\ sleeps = 0
  /\ currentL2Block - highestSyncedL2BlockNumber >= opts.transactionsPerPollingInterval

----------------------------------------------------------------------------
(* C15: when a put call with a non-empty, strictly increasing sequence of  *)
(* records returns, on whatever the store held before, reading each index  *)
(* of the sequence returns the record written for it, and reading the      *)
(* latest record returns the one with the greatest index of the sequence.  *)
C15_WrittenRecordsReadBack ==
  [][ (stPc = "latest" /\ stResult' = "ok" /\ StrictlyIncreasing(stEntries))
        => /\ \A i \in DOMAIN stEntries :
                 getByIndex(db', stKind, stEntries[i].index) = stEntries[i]
           /\ getLatest(db', stKind).index
                 = SetMax({stEntries[i].index : i \in DOMAIN stEntries})
           /\ db'[LatestKey(stKind)]
                 = SetMax({stEntries[i].index : i \in DOMAIN stEntries})
    ]_vars

(* A second put call has returned and a kind holds the records 0 and 1,    *)
(* both read back, with the record 1 as its latest.                        *)
C15_Witness ==
  /\ stResult = "ok"
  /\ puts = 2
  /\ \E kind \in Kinds :
        /\ getByIndex(db, kind, 0) = [index |-> 0]
        /\ getByIndex(db, kind, 1) = [index |-> 1]
        /\ getLatest(db, kind) = [index |-> 1]

----------------------------------------------------------------------------
(* The indices at which a kind holds a record.                             *)
StoredAt(kind) ==
  {i \in 0..(ScanMax + 1) : _makeKey(IndexPrefix(kind), i) \in DOMAIN db}

(* The stored records of a kind with start <= index < end, by ascending    *)
(* index.                                                                  *)
RecordsInRange(kind, start, end) ==
  LET indices == Ascending({i \in StoredAt(kind) : start <= i /\ i < end})
  IN  [n \in DOMAIN indices |-> getByIndex(db, kind, indices[n])]

(* C16: whatever the store holds, a range query of a kind returns exactly  *)
(* the stored records of that kind with start <= index < end, in ascending *)
(* index order, the empty sequence when none qualifies, and so nothing of  *)
(* another kind, no latest pointer and no cursor.                          *)
C16_RangeIsHalfOpenAndAscending ==
  scan # NoScan
    => /\ scan.result = RecordsInRange(scan.kind, scan.start, scan.end)
       /\ \A n \in DOMAIN scan.result :
             /\ scan.start <= scan.result[n].index
             /\ scan.result[n].index < scan.end
             /\ n > 1 => scan.result[n - 1].index < scan.result[n].index

(* A query from 2 up to, not including, ScanMax + 1 returned the           *)
(* transactions 2 and ScanMax of a store that also holds state roots with  *)
(* indices in the range and a scan cursor.                                 *)
C16_Witness ==
  /\ scan.kind = "transaction"
  /\ scan.start = 2
  /\ scan.end = ScanMax + 1
  /\ scan.result = <<[index |-> 2], [index |-> ScanMax]>>
  /\ StoredAt("transaction") = ScanIndices
  /\ StoredAt("stateroot") = ScanIndices
  /\ \E event \in EventNames : EventKey(event) \in DOMAIN db

----------------------------------------------------------------------------
(* The iteration has stored every block of its range, and every one of     *)
(* them was stored, with a latest pointer, when the iteration began: the   *)
(* range has been committed a second time.                                 *)
Recommitted ==
  /\ pc = "setCursor"
  /\ requested # <<>>
  /\ Len(handed) = Len(requested)
  /\ LatestKey("transaction") \in DOMAIN atStart
  /\ \A i \in DOMAIN requested : BlockStored(atStart, requested[i])

(* C17: when an already committed block range has been committed a second  *)
(* time, the store holds the keys it held before, every record has the     *)
(* value it had, and the latest pointer is not lower than it was. The      *)
(* pointer is written without a comparison, so a second commit that ends   *)
(* below the first one lowers it.                                          *)
C17_RecommitLeavesStoreEqual ==
  Recommitted =>
    /\ DOMAIN db = DOMAIN atStart
    /\ \A k \in DOMAIN db \ {LatestKey("transaction")} : db[k] = atStart[k]
    /\ db[LatestKey("transaction")] >= atStart[LatestKey("transaction")]

----------------------------------------------------------------------------
(* C18: a failure raised after stop() is absorbed whatever the error       *)
(* policy, so a thrown loop was running when it failed; one sleep, the     *)
(* only one of the iteration, follows the failure, it returns to the loop  *)
(* top, and the stopped loop exits there with no further step of an        *)
(* iteration and no write.                                                 *)
C18_FailureAfterStopIsAbsorbed ==
  /\ [](pc = "thrown" => (running /\ ~opts.dangerouslyCatchAllErrors))
  /\ []((pc = "exited" /\ err # "none") => sleeps = 1)
  /\ [][ /\ (FailureRaised /\ ~running)
              => (pc' = "sleepError" /\ sleeps' = 1 /\ db' = db)
         /\ (pc = "sleepError" /\ ~running /\ pc' # pc) => pc' = "top"
         /\ (pc = "top" /\ ~running /\ ~running' /\ pc' # pc)
              => (pc' = "exited" /\ db' = db /\ locals' = locals /\ err' = err)
       ]_vars

(* With dangerouslyCatchAllErrors off, a loop stopped during a cycle has   *)
(* exited after a failure of that cycle.                                   *)
C18_Witness ==
  /\ pc = "exited"
  /\ ~opts.dangerouslyCatchAllErrors
  /\ stopAt = "cycle"
  /\ err = "StorageError"
  /\ handed # <<>>
  /\ sleeps = 1

----------------------------------------------------------------------------
(* C19: whatever iterations, failures, stops and restarts have happened on *)
(* a store that was empty at the start, every block number from 1 up to    *)
(* the stored cursor has been handed to the decoder and is stored.         *)
C19_NoGapBelowCursor ==
  \A number \in 1..Cursor(db) :
    /\ BlockStored(db, number)
    /\ getByIndex(db, "transaction", number - 1) = parseBlock([number |-> number])

(* The cursor is at block 3 with the blocks 1 to 3 stored, and the         *)
(* iteration in progress has failed.                                       *)
C19_Witness ==
  /\ Cursor(db) = 3
  /\ \A number \in 1..3 : BlockStored(db, number)
  /\ err # "none"

----------------------------------------------------------------------------
(* The cursor as an iteration reads it: the stored value, 1 when there is  *)
(* none.                                                                   *)
EffectiveCursor == OrOne(getHighestSyncedUnconfirmedBlock(db))

AtHead == EffectiveCursor = chainHeight - 1

(* C20: with the height fixed at H >= 2, no failure and no stop, the       *)
(* cursor an iteration reads is eventually H - 1 for good (the stored one  *)
(* when H >= 3, the default 1 of an unwritten cursor when H = 2), the loop *)
(* from then on only reading the cursor and the height and sleeping; no    *)
(* fetch, store or cursor write happens in an iteration that starts with   *)
(* the cursor at H - 1; and every cursor write before that raises the      *)
(* cursor by min(transactionsPerPollingInterval, H - 1 - cursor).          *)
C20_CatchesUpThenIdles ==
  /\ <>[](/\ AtHead
          /\ chainHeight >= 3 => Cursor(db) = chainHeight - 1
          /\ pc \in {"top", "getHighest", "getBlockNumber", "sleepIdle"}
          /\ requested = <<>>
          /\ db = atStart)
  /\ [](AtHead => pc \notin InBatch)
  /\ [][ /\ AtHead => AtHead'
         /\ (pc = "setCursor" /\ pc' # pc)
              => /\ EffectiveCursor' =
                      EffectiveCursor
                        + Min(opts.transactionsPerPollingInterval,
                              chainHeight - 1 - EffectiveCursor)
                 /\ EffectiveCursor' > EffectiveCursor
       ]_vars

(* With one block per interval and the greatest height, the stored cursor  *)
(* has reached H - 1 in several iterations and the loop idles.             *)
C20_Witness ==
  /\ chainHeight = MaxHeight
  /\ opts.transactionsPerPollingInterval = 1
  /\ Cursor(db) = chainHeight - 1
  /\ pc = "sleepIdle"
  /\ \A number \in 1..(chainHeight - 1) : BlockStored(db, number)
====
